---- MODULE Spec2Model ----
(***************************************************************************)
(* A model of rustychess: Position, Board, the move generator and search   *)
(* of Engine, and the Game state machine, translated from src/src/chess.   *)
(***************************************************************************)
EXTENDS Integers, Sequences, FiniteSets, TLC

VARIABLES
    game,       \* the Game: [board, current_turn, status, move_history]
    engine,     \* the Engine last used: [depth, nodes_searched]
    op,         \* name of the last operation called ("none" before any call)
    arg_move,   \* the ChessMove / (from, to) pair the last call was given
    arg_piece,  \* the Option<Piece> the last set_piece was given
    arg_str,    \* the &str a parse is given or a formatting produced, as chars
    result,     \* "Ok", "InvalidMove" or "InvalidPosition": the last call's Result
    ret_piece,  \* what the last get_piece returned
    ret_move,   \* the ChessMove the last find_best_move returned (on Ok)
    ret_score,  \* the i32 the last evaluate_board returned
    evaluated,  \* the candidate moves the last find_best_move scored, in order
    applied,    \* log of the calls that returned Ok
    service     \* the service layer: AppState and the requests being handled

vars == <<game, engine, op, arg_move, arg_piece, arg_str, result, ret_piece, ret_move, ret_score,
         evaluated, applied, service>>

(***************************************************************************)
(* Bounds of the model.                                                    *)
(***************************************************************************)
MaxBoardOps == 2
MaxMoves == 3
MaxDepth == 2
MaxSearches == 2
MaxRequests == 2
MaxGenerated == 1

\* the depth every caller constructs its Engine with
SearchDepth == 3

(***************************************************************************)
(* Piece, Color, Position.                                                 *)
(***************************************************************************)
Colors == {"White", "Black"}

PieceTypes == {"Pawn", "Knight", "Bishop", "Rook", "Queen", "King"}

Piece(t, c) == [piece_type |-> t, color |-> c]

\* Option<Piece>::None
NoPiece == [piece_type |-> "None", color |-> "None"]

opposite(c) == IF c = "White" THEN "Black" ELSE "White"

\* Position::new: no validation
Pos(f, r) == [file |-> f, rank |-> r]

is_valid(pos) == pos.file <= 7 /\ pos.rank <= 7

\* ChessMove::new leaves score 0
ChessMove(from, to) == [from |-> from, to |-> to, score |-> 0]

\* chars are code points; a &str is the sequence of its chars
CHAR_a == 97
CHAR_h == 104
CHAR_1 == 49
CHAR_8 == 56
CHAR_HYPHEN == 45

\* Position::create: the validating constructor
Position_create(file, rank) ==
    IF file > 7 \/ rank > 7
    THEN [result |-> "InvalidPosition", pos |-> Pos(0, 0)]
    ELSE [result |-> "Ok", pos |-> Pos(file, rank)]

\* a from_algebraic that counts ranks from the digit zero
Position_from_algebraic_zero(file_char, rank_char) ==
    IF ~(file_char >= CHAR_a /\ file_char <= CHAR_h)
          \/ ~(rank_char >= CHAR_1 /\ rank_char <= CHAR_8)
    THEN [result |-> "InvalidPosition", pos |-> Pos(0, 0)]
    ELSE [result |-> "Ok", pos |-> Pos(file_char - CHAR_a, rank_char - (CHAR_1 - 1))]

\* Position::from_algebraic
Position_from_algebraic(file_char, rank_char) ==
    IF ~(file_char >= CHAR_a /\ file_char <= CHAR_h)
          \/ ~(rank_char >= CHAR_1 /\ rank_char <= CHAR_8)
    THEN [result |-> "InvalidPosition", pos |-> Pos(0, 0)]
    ELSE [result |-> "Ok", pos |-> Pos(file_char - CHAR_a, rank_char - CHAR_1)]

\* Position::to_algebraic, and Display which writes the two chars (for the
\* positions create accepts, whose sums stay within u8)
Position_to_algebraic(pos) == <<CHAR_a + pos.file, CHAR_1 + pos.rank>>

\* the number of bytes of a char in UTF-8
len_utf8(c) == IF c < 128 THEN 1 ELSE IF c < 2048 THEN 2 ELSE IF c < 65536 THEN 3 ELSE 4

RECURSIVE str_len(_)
\* str::len: the length in bytes
str_len(s) == IF s = <<>> THEN 0 ELSE len_utf8(Head(s)) + str_len(Tail(s))

\* Position::from_str; unwrap of the second char panics when the two bytes
\* are a single char
Position_from_str(s) ==
    IF str_len(s) # 2 THEN [result |-> "InvalidPosition", pos |-> Pos(0, 0)]
    ELSE IF Len(s) < 2 THEN [result |-> "Panic", pos |-> Pos(0, 0)]
    ELSE Position_from_algebraic(s[1], s[2])

\* char::is_whitespace, for the chars below U+0080
is_whitespace(c) == c = 32 \/ (c >= 9 /\ c <= 13)

RECURSIVE trim_start(_)
trim_start(s) ==
    IF s # <<>> /\ is_whitespace(Head(s)) THEN trim_start(Tail(s)) ELSE s

RECURSIVE trim_end(_)
trim_end(s) ==
    IF s # <<>> /\ is_whitespace(s[Len(s)]) THEN trim_end(SubSeq(s, 1, Len(s) - 1)) ELSE s

\* str::trim
trim(s) == trim_end(trim_start(s))

\* the indices of the hyphens of s
hyphens(s) == {i \in 1..Len(s) : s[i] = CHAR_HYPHEN}

\* str::is_char_boundary
is_char_boundary(s, n) == \E k \in 0..Len(s) : str_len(SubSeq(s, 1, k)) = n

\* the chars of &s[a..b] for byte offsets a <= b that are char boundaries
byte_slice(s, a, b) ==
    SubSeq(s, (CHOOSE k \in 0..Len(s) : str_len(SubSeq(s, 1, k)) = a) + 1,
              CHOOSE k \in 0..Len(s) : str_len(SubSeq(s, 1, k)) = b)

\* the rest of from_str once the two parts are known: from is parsed first
parse_parts(from_str, to_str) ==
    LET from == Position_from_str(from_str)
        to == Position_from_str(to_str)
    IN  IF from.result # "Ok" THEN [result |-> from.result, move |-> ChessMove(Pos(0, 0), Pos(0, 0))]
        ELSE IF to.result # "Ok" THEN [result |-> to.result, move |-> ChessMove(Pos(0, 0), Pos(0, 0))]
        ELSE [result |-> "Ok", move |-> ChessMove(from.pos, to.pos)]

\* <ChessMove as FromStr>::from_str
ChessMove_from_str(str) ==
    LET s == trim(str)
        failed(kind) == [result |-> kind, move |-> ChessMove(Pos(0, 0), Pos(0, 0))]
    IN  IF hyphens(s) # {}
        THEN IF Cardinality(hyphens(s)) # 1 THEN failed("InvalidMove")
             ELSE LET i == CHOOSE i \in hyphens(s) : TRUE
                  IN  parse_parts(SubSeq(s, 1, i - 1), SubSeq(s, i + 1, Len(s)))
        ELSE IF str_len(s) = 4
        THEN IF ~is_char_boundary(s, 2)
             THEN failed("Panic")
             ELSE parse_parts(byte_slice(s, 0, 2), byte_slice(s, 2, 4))
        ELSE failed("InvalidMove")

(***************************************************************************)
(* Board.                                                                  *)
(***************************************************************************)
BackRank == <<"Rook", "Knight", "Bishop", "Queen", "King", "Bishop", "Knight", "Rook">>

\* a back rank with king and queen on each other's file
setup_back_rank_swapped(c) ==
    [f \in 0..7 |-> Piece(<<"Rook", "Knight", "Bishop", "King", "Queen",
                            "Bishop", "Knight", "Rook">>[f + 1], c)]

setup_back_rank(c) == [f \in 0..7 |-> Piece(BackRank[f + 1], c)]

\* Board::new + setup_initial_position; squares[rank][file]
Board_new ==
    [r \in 0..7 |->
        IF r = 0 THEN setup_back_rank("White")
        ELSE IF r = 7 THEN setup_back_rank("Black")
        ELSE IF r = 1 THEN [f \in 0..7 |-> Piece("Pawn", "White")]
        ELSE IF r = 6 THEN [f \in 0..7 |-> Piece("Pawn", "Black")]
        ELSE [f \in 0..7 |-> NoPiece]]

\* the lenient read
get_piece(b, pos) ==
    IF ~is_valid(pos) THEN NoPiece ELSE b[pos.rank][pos.file]

\* a write that reports Ok for any position
set_piece_unchecked(b, pos, piece) ==
    [result |-> "Ok",
     board |-> IF is_valid(pos) THEN [b EXCEPT ![pos.rank][pos.file] = piece] ELSE b]

\* the strict write
set_piece(b, pos, piece) ==
    IF ~is_valid(pos)
    THEN [result |-> "InvalidPosition", board |-> b]
    ELSE [result |-> "Ok", board |-> [b EXCEPT ![pos.rank][pos.file] = piece]]

\* a relocation that validates `to` only when it writes it
Board_make_move_late_check(b, from, to) ==
    IF ~is_valid(from) THEN [result |-> "InvalidPosition", board |-> b]
    ELSE IF get_piece(b, from) = NoPiece THEN [result |-> "InvalidMove", board |-> b]
    ELSE LET s1 == set_piece(b, from, NoPiece)
         IN  set_piece(s1.board, to, get_piece(b, from))

\* a relocation that writes the destination only
Board_make_move_copy(b, from, to) ==
    IF ~is_valid(from) \/ ~is_valid(to) THEN [result |-> "InvalidPosition", board |-> b]
    ELSE IF get_piece(b, from) = NoPiece THEN [result |-> "InvalidMove", board |-> b]
    ELSE set_piece(b, to, get_piece(b, from))

\* Board::make_move: the relocation, `?` returning at the first failing write
Board_make_move(b, from, to) ==
    IF ~is_valid(from) THEN [result |-> "InvalidPosition", board |-> b]
    ELSE IF ~is_valid(to) THEN [result |-> "InvalidPosition", board |-> b]
    ELSE IF get_piece(b, from) = NoPiece THEN [result |-> "InvalidMove", board |-> b]
    ELSE LET piece == get_piece(b, from)
             s1 == set_piece(b, from, NoPiece)
         IN  IF s1.result # "Ok" THEN s1
             ELSE set_piece(s1.board, to, piece)

(***************************************************************************)
(* Engine: move generation (pseudo-legal).                                 *)
(***************************************************************************)
\* (dr, df): rook directions first, then bishop directions
DIRECTIONS ==
    << <<1, 0>>, <<-1, 0>>, <<0, 1>>, <<0, -1>>,
       <<1, 1>>, <<1, -1>>, <<-1, 1>>, <<-1, -1>> >>

\* (dr, df)
KNIGHT_MOVES ==
    << <<2, 1>>, <<2, -1>>, <<-2, 1>>, <<-2, -1>>,
       <<1, 2>>, <<1, -2>>, <<-1, 2>>, <<-1, -2>> >>

\* F applied to the value of x, with x evaluated once
bind(x, F(_)) == CHOOSE v \in {F(y) : y \in {x}} : TRUE

RECURSIVE concat_from(_, _)
concat_from(ss, i) == IF i > Len(ss) THEN <<>> ELSE ss[i] \o concat_from(ss, i + 1)

\* the pushes of consecutive loop iterations, in order
Flatten(ss) ==
    LET all(s) == concat_from(s, 1)
    IN  bind(ss, all)

\* the bounds test the generators apply to signed (rank, file)
in_board(r, f) == r >= 0 /\ r < 8 /\ f >= 0 /\ f < 8

\* a pawn generator without the double step from the home rank
generate_pawn_moves_single(board, from, piece) ==
    LET direction == IF piece.color = "White" THEN 1 ELSE -1
        new_rank == from.rank + direction
        rank_ok == new_rank >= 0 /\ new_rank < 8
        to == Pos(from.file, new_rank)
        forward == IF rank_ok /\ get_piece(board, to) = NoPiece
                   THEN <<ChessMove(from, to)>> ELSE <<>>
        capture(file_offset) ==
            LET new_file == from.file + file_offset
                cto == Pos(new_file, new_rank)
            IN  IF rank_ok /\ new_file >= 0 /\ new_file < 8
                    /\ get_piece(board, cto) # NoPiece
                    /\ get_piece(board, cto).color # piece.color
                THEN <<ChessMove(from, cto)>> ELSE <<>>
    IN  forward \o capture(-1) \o capture(1)

\* a pawn generator whose double step does not look at the square in between
generate_pawn_moves_jump(board, from, piece) ==
    LET direction == IF piece.color = "White" THEN 1 ELSE -1
        new_rank == from.rank + direction
        rank_ok == new_rank >= 0 /\ new_rank < 8
        to == Pos(from.file, new_rank)
        forward_free == rank_ok /\ get_piece(board, to) = NoPiece
        on_home == (piece.color = "White" /\ from.rank = 1)
                       \/ (piece.color = "Black" /\ from.rank = 6)
        double_new_rank == from.rank + 2 * direction
        double_to == Pos(from.file, double_new_rank)
        forward == IF forward_free THEN <<ChessMove(from, to)>> ELSE <<>>
        double == IF on_home
                      /\ double_new_rank >= 0 /\ double_new_rank < 8
                      /\ get_piece(board, double_to) = NoPiece
                  THEN <<ChessMove(from, double_to)>> ELSE <<>>
        capture(file_offset) ==
            LET new_file == from.file + file_offset
                cto == Pos(new_file, new_rank)
            IN  IF rank_ok /\ new_file >= 0 /\ new_file < 8
                    /\ get_piece(board, cto) # NoPiece
                    /\ get_piece(board, cto).color # piece.color
                THEN <<ChessMove(from, cto)>> ELSE <<>>
    IN  forward \o double \o capture(-1) \o capture(1)

generate_pawn_moves(board, from, piece) ==
    LET direction == IF piece.color = "White" THEN 1 ELSE -1
        new_rank == from.rank + direction
        rank_ok == new_rank >= 0 /\ new_rank < 8
        to == Pos(from.file, new_rank)
        forward_free == rank_ok /\ get_piece(board, to) = NoPiece
        on_home == (piece.color = "White" /\ from.rank = 1)
                       \/ (piece.color = "Black" /\ from.rank = 6)
        double_new_rank == from.rank + 2 * direction
        double_to == Pos(from.file, double_new_rank)
        forward == IF forward_free THEN <<ChessMove(from, to)>> ELSE <<>>
        double == IF forward_free /\ on_home
                      /\ double_new_rank >= 0 /\ double_new_rank < 8
                      /\ get_piece(board, double_to) = NoPiece
                  THEN <<ChessMove(from, double_to)>> ELSE <<>>
        capture(file_offset) ==
            LET new_file == from.file + file_offset
                cto == Pos(new_file, new_rank)
            IN  IF rank_ok /\ new_file >= 0 /\ new_file < 8
                    /\ get_piece(board, cto) # NoPiece
                    /\ get_piece(board, cto).color # piece.color
                THEN <<ChessMove(from, cto)>> ELSE <<>>
    IN  forward \o double \o capture(-1) \o capture(1)

\* a single step that does not look at the colour of the piece it lands on
step_move_any(board, from, piece, dr, df) ==
    LET to_rank == from.rank + dr
        to_file == from.file + df
        to == Pos(to_file, to_rank)
    IN  IF in_board(to_rank, to_file)
        THEN <<ChessMove(from, to)>> ELSE <<>>

\* one iteration of the knight's / king's loop: a single step by (dr, df)
step_move(board, from, piece, dr, df) ==
    LET to_rank == from.rank + dr
        to_file == from.file + df
        to == Pos(to_file, to_rank)
    IN  IF in_board(to_rank, to_file)
            /\ (get_piece(board, to) = NoPiece \/ get_piece(board, to).color # piece.color)
        THEN <<ChessMove(from, to)>> ELSE <<>>

generate_knight_moves(board, from, piece) ==
    Flatten([i \in 1..8 |->
        step_move(board, from, piece, KNIGHT_MOVES[i][1], KNIGHT_MOVES[i][2])])

generate_king_moves(board, from, piece) ==
    Flatten([i \in 1..8 |->
        step_move(board, from, piece, DIRECTIONS[i][1], DIRECTIONS[i][2])])

RECURSIVE slide_over_own(_, _, _, _, _, _, _)
\* a slide that also lists the first occupied square when it holds an own piece
slide_over_own(board, from, piece, dr, df, to_rank, to_file) ==
    IF ~in_board(to_rank, to_file) THEN <<>>
    ELSE LET to == Pos(to_file, to_rank)
             target == get_piece(board, to)
         IN  IF target # NoPiece
             THEN <<ChessMove(from, to)>>
             ELSE <<ChessMove(from, to)>>
                    \o slide_over_own(board, from, piece, dr, df, to_rank + dr, to_file + df)

RECURSIVE slide(_, _, _, _, _, _, _)
\* the while loop of generate_sliding_moves, at (to_rank, to_file)
slide(board, from, piece, dr, df, to_rank, to_file) ==
    IF ~in_board(to_rank, to_file) THEN <<>>
    ELSE LET to == Pos(to_file, to_rank)
             target == get_piece(board, to)
         IN  IF target # NoPiece
             THEN (IF target.color # piece.color THEN <<ChessMove(from, to)>> ELSE <<>>)
             ELSE <<ChessMove(from, to)>>
                    \o slide(board, from, piece, dr, df, to_rank + dr, to_file + df)

generate_sliding_moves(board, from, piece, dr, df) ==
    slide(board, from, piece, dr, df, from.rank + dr, from.file + df)

generate_bishop_moves(board, from, piece) ==
    Flatten([i \in 1..4 |->
        generate_sliding_moves(board, from, piece, DIRECTIONS[i + 4][1], DIRECTIONS[i + 4][2])])

generate_rook_moves(board, from, piece) ==
    Flatten([i \in 1..4 |->
        generate_sliding_moves(board, from, piece, DIRECTIONS[i][1], DIRECTIONS[i][2])])

generate_queen_moves(board, from, piece) ==
    Flatten([i \in 1..8 |->
        generate_sliding_moves(board, from, piece, DIRECTIONS[i][1], DIRECTIONS[i][2])])

\* the match on piece_type
piece_moves(board, from, piece) ==
    CASE piece.piece_type = "Pawn" -> generate_pawn_moves(board, from, piece)
      [] piece.piece_type = "Knight" -> generate_knight_moves(board, from, piece)
      [] piece.piece_type = "Bishop" -> generate_bishop_moves(board, from, piece)
      [] piece.piece_type = "Rook" -> generate_rook_moves(board, from, piece)
      [] piece.piece_type = "Queen" -> generate_queen_moves(board, from, piece)
      [] piece.piece_type = "King" -> generate_king_moves(board, from, piece)

\* the i-th square of the scan, rank-major: rank 0 file 0..7, rank 1 ...
scan_square(i) == Pos((i - 1) % 8, (i - 1) \div 8)

\* the 64 squares in the order the nested loops visit them
ScanOrder == [i \in 1..64 |-> scan_square(i)]

\* the squares in the order of a scan whose outer loop walks the files
FileMajorOrder == [i \in 1..64 |-> Pos((i - 1) \div 8, (i - 1) % 8)]

\* the moves of the pieces of `color`, visiting the squares in `order`
scan_moves(board, color, order) ==
    LET own(sq) == board[sq.rank][sq.file].color = color
        from_each(found) ==
            Flatten([k \in 1..Len(found) |->
                piece_moves(board, found[k], get_piece(board, found[k]))])
    IN  bind(SelectSeq(order, own), from_each)

\* a generator that scans file by file
generate_moves_file_major(board, color) == scan_moves(board, color, FileMajorOrder)

\* Engine::generate_moves: always Ok; the moves in scan order
generate_moves(board, color) == scan_moves(board, color, ScanOrder)

get_legal_moves(board, color) == generate_moves(board, color)

(***************************************************************************)
(* Engine: evaluation and search.                                          *)
(***************************************************************************)
PAWN_VALUE == 100
KNIGHT_VALUE == 320
BISHOP_VALUE == 330
ROOK_VALUE == 500
QUEEN_VALUE == 900
KING_VALUE == 20000
CENTER_CONTROL_BONUS == 10
DEVELOPED_PIECE_BONUS == 15

I32_MAX == 2147483647
I32_MIN == -I32_MAX - 1

\* unary minus on i32, wrapping as the release build does
neg_i32(x) == IF x = I32_MIN THEN I32_MIN ELSE -x

\* a - b on u8 where the build does not check for overflow
wrapping_sub_u8(a, b) == (a - b) % 256

max(a, b) == IF a >= b THEN a ELSE b
min(a, b) == IF a <= b THEN a ELSE b

piece_value(piece) ==
    CASE piece.piece_type = "Pawn" -> PAWN_VALUE
      [] piece.piece_type = "Knight" -> KNIGHT_VALUE
      [] piece.piece_type = "Bishop" -> BISHOP_VALUE
      [] piece.piece_type = "Rook" -> ROOK_VALUE
      [] piece.piece_type = "Queen" -> QUEEN_VALUE
      [] piece.piece_type = "King" -> KING_VALUE

\* a scoring that tests the opponent's minor pieces against the home rank of
\* the perspective colour
square_score_own_home(board, color, file, rank) ==
    LET piece == board[rank][file]
        center == IF (file = 3 \/ file = 4) /\ (rank = 3 \/ rank = 4)
                  THEN CENTER_CONTROL_BONUS ELSE 0
        minor == piece.piece_type = "Knight" \/ piece.piece_type = "Bishop"
        developed == minor /\ ((color = "White" /\ rank > 0) \/ (color = "Black" /\ rank < 7))
    IN  IF piece = NoPiece THEN 0
        ELSE IF piece.color = color
        THEN piece_value(piece) + center + (IF developed THEN DEVELOPED_PIECE_BONUS ELSE 0)
        ELSE 0 - piece_value(piece) - center - (IF developed THEN DEVELOPED_PIECE_BONUS ELSE 0)

\* a scoring that counts the centre for the perspective colour only
square_score_own_center(board, color, file, rank) ==
    LET piece == board[rank][file]
        center == IF (file = 3 \/ file = 4) /\ (rank = 3 \/ rank = 4)
                  THEN CENTER_CONTROL_BONUS ELSE 0
        minor == piece.piece_type = "Knight" \/ piece.piece_type = "Bishop"
    IN  IF piece = NoPiece THEN 0
        ELSE IF piece.color = color
        THEN piece_value(piece) + center
               + (IF minor /\ ((color = "White" /\ rank > 0) \/ (color = "Black" /\ rank < 7))
                  THEN DEVELOPED_PIECE_BONUS ELSE 0)
        ELSE 0 - piece_value(piece)
               - (IF minor /\ ((color = "Black" /\ rank > 0) \/ (color = "White" /\ rank < 7))
                  THEN DEVELOPED_PIECE_BONUS ELSE 0)

\* what the square (file, rank) adds to the score seen from `color`
square_score(board, color, file, rank) ==
    LET piece == board[rank][file]
        center == IF (file = 3 \/ file = 4) /\ (rank = 3 \/ rank = 4)
                  THEN CENTER_CONTROL_BONUS ELSE 0
        minor == piece.piece_type = "Knight" \/ piece.piece_type = "Bishop"
    IN  IF piece = NoPiece THEN 0
        ELSE IF piece.color = color
        THEN piece_value(piece) + center
               + (IF minor /\ ((color = "White" /\ rank > 0) \/ (color = "Black" /\ rank < 7))
                  THEN DEVELOPED_PIECE_BONUS ELSE 0)
        ELSE 0 - piece_value(piece) - center
               - (IF minor /\ ((color = "Black" /\ rank > 0) \/ (color = "White" /\ rank < 7))
                  THEN DEVELOPED_PIECE_BONUS ELSE 0)

RECURSIVE sum_squares(_, _, _, _)
\* the running sum over the occupied squares found[k..]
sum_squares(board, color, found, k) ==
    IF k > Len(found) THEN 0
    ELSE square_score(board, color, found[k].file, found[k].rank)
            + sum_squares(board, color, found, k + 1)

\* Engine::evaluate_board: empty squares add nothing
evaluate_board(board, color) ==
    LET occupied(sq) == board[sq.rank][sq.file] # NoPiece
        total(found) == sum_squares(board, color, found, 1)
    IN  bind(SelectSeq(ScanOrder, occupied), total)

RECURSIVE minimax(_, _, _, _, _)
RECURSIVE max_loop(_, _, _, _, _, _, _)
RECURSIVE min_loop(_, _, _, _, _, _, _)

\* one iteration of the White branch's for loop; st holds max_eval, alpha, the
\* calls made below so far, and whether the loop has hit its break
max_step(board, depth, move, st, beta) ==
    LET after(copy) ==
            LET scored(child) ==
                    LET updated(a) ==
                            [score |-> max(st.score, child.score), bound |-> a,
                             nodes |-> st.nodes + child.nodes, cut |-> beta <= a]
                    IN  bind(max(st.bound, child.score), updated)
            IN  IF copy.result # "Ok" THEN st
                ELSE bind(minimax(copy.board, depth - 1, st.bound, beta, "Black"), scored)
    IN  IF st.cut THEN st
        ELSE bind(Board_make_move(board, move.from, move.to), after)

\* the iterations for moves[lo..hi] of the White branch's loop, in order,
\* from the loop state st (the range is split so that the evaluation nests
\* to a depth logarithmic in its length)
max_loop(board, depth, moves, lo, hi, st, beta) ==
    LET rest(half) == max_loop(board, depth, moves, (lo + hi) \div 2 + 1, hi, half, beta)
    IN  IF lo = hi THEN max_step(board, depth, moves[lo], st, beta)
        ELSE bind(max_loop(board, depth, moves, lo, (lo + hi) \div 2, st, beta), rest)

\* an iteration of the Black branch whose break discards the score of the
\* move that caused it
min_step_cut_discards(board, depth, move, st, alpha) ==
    LET after(copy) ==
            LET scored(child) ==
                    LET updated(b) ==
                            [score |-> IF b <= alpha THEN st.score
                                       ELSE min(st.score, child.score),
                             bound |-> b,
                             nodes |-> st.nodes + child.nodes, cut |-> b <= alpha]
                    IN  bind(min(st.bound, child.score), updated)
            IN  IF copy.result # "Ok" THEN st
                ELSE bind(minimax(copy.board, depth - 1, alpha, st.bound, "White"), scored)
    IN  IF st.cut THEN st
        ELSE bind(Board_make_move(board, move.from, move.to), after)

\* one iteration of the Black branch's for loop; st holds min_eval, beta, the
\* calls made below so far, and whether the loop has hit its break
min_step(board, depth, move, st, alpha) ==
    LET after(copy) ==
            LET scored(child) ==
                    LET updated(b) ==
                            [score |-> min(st.score, child.score), bound |-> b,
                             nodes |-> st.nodes + child.nodes, cut |-> b <= alpha]
                    IN  bind(min(st.bound, child.score), updated)
            IN  IF copy.result # "Ok" THEN st
                ELSE bind(minimax(copy.board, depth - 1, alpha, st.bound, "White"), scored)
    IN  IF st.cut THEN st
        ELSE bind(Board_make_move(board, move.from, move.to), after)

\* the iterations for moves[lo..hi] of the Black branch's loop, in order
min_loop(board, depth, moves, lo, hi, st, alpha) ==
    LET rest(half) == min_loop(board, depth, moves, (lo + hi) \div 2 + 1, hi, half, alpha)
    IN  IF lo = hi THEN min_step(board, depth, moves[lo], st, alpha)
        ELSE bind(min_loop(board, depth, moves, lo, (lo + hi) \div 2, st, alpha), rest)

\* Engine::minimax: the value returned and the number of nodes_searched increments
minimax(board, depth, alpha, beta, color) ==
    LET leaf == [score |-> evaluate_board(board, color), nodes |-> 1]
        counted(r) == [score |-> r.score, nodes |-> r.nodes + 1]
        search(moves) ==
            IF moves = <<>> THEN leaf
            ELSE IF color = "White"
            THEN bind(max_loop(board, depth, moves, 1, Len(moves),
                               [score |-> I32_MIN, bound |-> alpha,
                                nodes |-> 0, cut |-> FALSE], beta), counted)
            ELSE bind(min_loop(board, depth, moves, 1, Len(moves),
                               [score |-> I32_MAX, bound |-> beta,
                                nodes |-> 0, cut |-> FALSE], alpha), counted)
    IN  IF depth = 0 THEN leaf
        ELSE bind(generate_moves(board, color), search)

\* a scoring that stores the child's value without negating it
score_move_no_negation(g, depth, moves, i, copy) ==
    LET scored(child) ==
            [move |-> [moves[i] EXCEPT !.score = child.score],
             nodes |-> child.nodes]
    IN  bind(minimax(copy.board, wrapping_sub_u8(depth, 1), I32_MIN + 1, I32_MAX - 1,
                     opposite(g.current_turn)), scored)

\* the candidate moves[i] with the score the search gives it, and the nodes
\* that search visited
score_move(g, depth, moves, i, copy) ==
    LET scored(child) ==
            [move |-> [moves[i] EXCEPT !.score = neg_i32(child.score)],
             nodes |-> child.nodes]
    IN  bind(minimax(copy.board, wrapping_sub_u8(depth, 1), I32_MIN + 1, I32_MAX - 1,
                     opposite(g.current_turn)), scored)

\* best_move = None, best_score = i32::MIN, nodes_searched = 0
root_start == [best |-> <<>>, best_score |-> I32_MIN, nodes |-> 0, evaluated |-> <<>>]

\* one iteration of the for loop of find_best_move: st.best is <<>> (None) or
\* <<move>>, st.best_score the score it was chosen with
root_step(g, depth, moves, i, st, strict) ==
    LET better(a, b) == IF strict THEN a > b ELSE a >= b
        after(copy) ==
            LET chosen(c) ==
                    [best |-> IF better(c.move.score, st.best_score)
                              THEN <<c.move>> ELSE st.best,
                     best_score |-> IF better(c.move.score, st.best_score)
                                    THEN c.move.score ELSE st.best_score,
                     nodes |-> st.nodes + c.nodes,
                     evaluated |-> Append(st.evaluated, c.move)]
            IN  IF copy.result # "Ok" THEN st
                ELSE bind(score_move(g, depth, moves, i, copy), chosen)
    IN  bind(Board_make_move(g.board, moves[i].from, moves[i].to), after)

RECURSIVE root_loop(_, _, _, _, _, _, _)
\* the iterations for moves[lo..hi] of the loop of find_best_move, in order
root_loop(g, depth, moves, lo, hi, st, strict) ==
    LET rest(half) == root_loop(g, depth, moves, (lo + hi) \div 2 + 1, hi, half, strict)
    IN  IF lo = hi THEN root_step(g, depth, moves, lo, st, strict)
        ELSE bind(root_loop(g, depth, moves, lo, (lo + hi) \div 2, st, strict), rest)

\* the Err(InvalidMove) of find_best_move
no_move(nodes, scored) ==
    [result |-> "InvalidMove", move |-> ChessMove(Pos(0, 0), Pos(0, 0)),
     nodes_searched |-> nodes, evaluated |-> scored]

\* the whole of find_best_move; `strict` says whether a candidate must score
\* strictly more than the best so far to replace it
search_root(e, g, strict) ==
    LET finish(r) ==
            IF r.best = <<>> THEN no_move(r.nodes, r.evaluated)
            ELSE [result |-> "Ok", move |-> r.best[1],
                  nodes_searched |-> r.nodes, evaluated |-> r.evaluated]
        search(moves) ==
            IF moves = <<>> THEN no_move(0, <<>>)
            ELSE bind(root_loop(g, e.depth, moves, 1, Len(moves), root_start, strict), finish)
    IN  bind(generate_moves(g.board, g.current_turn), search)

\* a find_best_move that answers an empty move list with a default move
find_best_move_default(e, g) ==
    LET defaulted(r) == IF r.result = "Ok" THEN r ELSE [r EXCEPT !.result = "Ok"]
    IN  bind(search_root(e, g, TRUE), defaulted)

\* a find_best_move whose loop keeps the last of the equally scored moves
find_best_move_last_wins(e, g) ==
    search_root(e, g, FALSE)

\* a find_best_move that keeps counting from the engine's previous count
find_best_move_no_reset(e, g) ==
    LET carried(r) == [r EXCEPT !.nodes_searched = e.nodes_searched + r.nodes_searched]
    IN  bind(search_root(e, g, TRUE), carried)

\* Engine::find_best_move as built without overflow checks
find_best_move(e, g) ==
    search_root(e, g, TRUE)

\* the abort of a build with overflow checks on `self.depth - 1`
overflow_panic ==
    [result |-> "Panic", move |-> ChessMove(Pos(0, 0), Pos(0, 0)),
     nodes_searched |-> 0, evaluated |-> <<>>]

\* the outcomes of Engine::find_best_move over the builds: `self.depth - 1`
\* is evaluated once a candidate has been relocated, and for depth 0 it
\* wraps to 255 or aborts
find_best_move_builds(e, g) ==
    LET aborts(moves) == IF e.depth = 0 /\ moves # <<>> THEN {overflow_panic} ELSE {}
    IN  {find_best_move(e, g)} \cup bind(generate_moves(g.board, g.current_turn), aborts)

\* Engine::new
Engine_new(depth) == [depth |-> depth, nodes_searched |-> 0]

(***************************************************************************)
(* Game.                                                                   *)
(***************************************************************************)
\* a fresh Game whose status is the fifth variant
Game_new_draw ==
    [board |-> Board_new,
     current_turn |-> "White",
     status |-> "Draw",
     move_history |-> <<>>]

\* Game::new
Game_new ==
    [board |-> Board_new,
     current_turn |-> "White",
     status |-> "InProgress",
     move_history |-> <<>>]

\* whether the sequence holds a move equal to m (from, to and score)
contains(moves, m) == \E i \in 1..Len(moves) : moves[i] = m

\* Board::move_piece, called by Game::make_move: the relocation of m
move_piece(board, m) == Board_make_move(board, m.from, m.to)

\* a make_move that flips the turn before it looks the move up
Game_make_move_flip_first(g, m) ==
    LET current_piece == get_piece(g.board, m.from)
        flipped == [g EXCEPT !.current_turn = opposite(g.current_turn)]
    IN  IF current_piece = NoPiece THEN [result |-> "InvalidMove", game |-> g]
        ELSE IF current_piece.color # g.current_turn
        THEN [result |-> "InvalidMove", game |-> g]
        ELSE IF ~contains(get_legal_moves(g.board, g.current_turn), m)
        THEN [result |-> "InvalidMove", game |-> flipped]
        ELSE [result |-> "Ok",
              game |-> [flipped EXCEPT !.board = move_piece(g.board, m).board]]

\* a make_move without the lookup in the generated moves
Game_make_move_no_lookup(g, m) ==
    LET current_piece == get_piece(g.board, m.from)
        moved == move_piece(g.board, m)
    IN  IF current_piece = NoPiece THEN [result |-> "InvalidMove", game |-> g]
        ELSE IF current_piece.color # g.current_turn
        THEN [result |-> "InvalidMove", game |-> g]
        ELSE IF moved.result # "Ok"
        THEN [result |-> moved.result, game |-> [g EXCEPT !.board = moved.board]]
        ELSE [result |-> "Ok",
              game |-> [g EXCEPT !.board = moved.board,
                                 !.current_turn = opposite(g.current_turn)]]

\* Game::make_move
Game_make_move(g, m) ==
    LET current_piece == get_piece(g.board, m.from)
        legal_moves == get_legal_moves(g.board, g.current_turn)
        moved == move_piece(g.board, m)
    IN  IF current_piece = NoPiece THEN [result |-> "InvalidMove", game |-> g]
        ELSE IF current_piece.color # g.current_turn
        THEN [result |-> "InvalidMove", game |-> g]
        ELSE IF ~contains(legal_moves, m)
        THEN [result |-> "InvalidMove", game |-> g]
        ELSE IF moved.result # "Ok"
        THEN [result |-> moved.result, game |-> [g EXCEPT !.board = moved.board]]
        ELSE [result |-> "Ok",
              game |-> [g EXCEPT !.board = moved.board,
                                 !.current_turn = opposite(g.current_turn)]]

NoMove == ChessMove(Pos(0, 0), Pos(0, 0))

(***************************************************************************)
(* The service layer: AppState { games: Mutex<HashMap<String, Game>> } and *)
(* the request handlers, each step of a handler being one step of a        *)
(* worker thread.                                                          *)
(***************************************************************************)
Requests == 1..MaxRequests

\* what a handler has read of a game for its response or its search
NoView == [found |-> FALSE, game |-> Game_new]
View(g) == [found |-> TRUE, game |-> g]

\* a request not yet received
IdleRequest == [kind |-> "none", id |-> 0, move |-> NoMove, pc |-> "idle"]

\* main: an empty map behind an unlocked Mutex (lock 0), no request received;
\* games[id] is the Game stored under the id-th identifier handed out, and
\* settled[id] that Game as the last completed request left it
AppState_new ==
    [lock |-> 0,
     games |-> <<>>,
     settled |-> <<>>,
     reqs |-> [r \in Requests |-> IdleRequest],
     observed |-> [r \in Requests |-> NoView]]

\* games.get(&id)
has_game(s, id) == id \in 1..Len(s.games)

\* the MutexGuard is dropped when the handler returns
respond(s, r, view) ==
    [s EXCEPT !.lock = 0, !.reqs[r].pc = "done", !.observed[r] = view]

\* a handler that lets go of the guard once the piece is relocated
make_move_relocate_unlocked(s, r) ==
    LET q == s.reqs[r]
        done == Game_make_move(s.games[q.id], q.move)
    IN  IF ~has_game(s, q.id) THEN respond(s, r, NoView)
        ELSE IF done.result # "Ok" THEN respond(s, r, NoView)
        ELSE [s EXCEPT !.games[q.id].board = done.game.board,
                       !.reqs[r].pc = "relocated",
                       !.lock = 0]

\* the make_move handler up to the relocation inside Game::make_move:
\* NotFound, an error response, or the board written and the turn not yet
\* flipped, with the guard still held
make_move_relocate(s, r) ==
    LET q == s.reqs[r]
        done == Game_make_move(s.games[q.id], q.move)
    IN  IF ~has_game(s, q.id) THEN respond(s, r, NoView)
        ELSE IF done.result # "Ok" THEN respond(s, r, NoView)
        ELSE [s EXCEPT !.games[q.id].board = done.game.board,
                       !.reqs[r].pc = "relocated"]

\* the rest of the make_move handler: the turn flipped, the Game serialized
\* into the response, the guard dropped
make_move_finish(s, r) ==
    LET q == s.reqs[r]
        g == [s.games[q.id] EXCEPT !.current_turn = opposite(s.games[q.id].current_turn)]
    IN  [respond(s, r, View(g)) EXCEPT !.games[q.id] = g, !.settled[q.id] = g]

\* the new_game handler under the guard: insert under a fresh identifier
new_game_insert(s, r) ==
    [respond(s, r, View(Game_new)) EXCEPT !.games = Append(s.games, Game_new),
                                          !.settled = Append(s.settled, Game_new)]

\* the get_game handler, and get_best_move up to the Game it hands to
\* find_best_move, under the guard
read_game(s, r) ==
    IF has_game(s, s.reqs[r].id)
    THEN respond(s, r, View(s.games[s.reqs[r].id]))
    ELSE respond(s, r, NoView)

\* an entry of the log of successful calls
Entry(o, m, piece) == [op |-> o, from |-> m.from, to |-> m.to, piece |-> piece]

Init ==
    /\ game = Game_new
    /\ engine = Engine_new(SearchDepth)
    /\ op = "none"
    /\ arg_move = NoMove
    /\ arg_piece = NoPiece
    /\ arg_str = <<>>
    /\ result = "Ok"
    /\ ret_piece = NoPiece
    /\ ret_move = NoMove
    /\ ret_score = 0
    /\ evaluated = <<>>
    /\ applied = <<>>
    /\ service = AppState_new

(***************************************************************************)
(* The Board driven directly, as src/bin/engine_test.rs does.              *)
(***************************************************************************)
E2 == Pos(4, 1)
E4 == Pos(4, 3)
E5 == Pos(4, 4)

\* the positions the Board operations are called with: in and out of range
BoardPositions == {E2, E4, E5, Pos(8, 0), Pos(0, 8)}

BoardPieces == {NoPiece, Piece("Queen", "Black")}

BoardMakeMove ==
    /\ Len(applied) < MaxBoardOps
    /\ \E from \in BoardPositions, to \in BoardPositions :
          \E r \in {Board_make_move(game.board, from, to)} :
              /\ game' = [game EXCEPT !.board = r.board]
              /\ op' = "Board::make_move"
              /\ arg_move' = ChessMove(from, to)
              /\ result' = r.result
              /\ applied' = IF r.result = "Ok"
                            THEN Append(applied, Entry("Board::make_move", ChessMove(from, to), NoPiece))
                            ELSE applied
    /\ UNCHANGED <<engine, arg_piece, arg_str, ret_piece, ret_move, evaluated, service, ret_score>>

BoardSetPiece ==
    /\ Len(applied) < MaxBoardOps
    /\ \E pos \in BoardPositions, piece \in BoardPieces :
          \E r \in {set_piece(game.board, pos, piece)} :
              /\ game' = [game EXCEPT !.board = r.board]
              /\ op' = "set_piece"
              /\ arg_move' = ChessMove(pos, pos)
              /\ arg_piece' = piece
              /\ result' = r.result
              /\ applied' = IF r.result = "Ok"
                            THEN Append(applied, Entry("set_piece", ChessMove(pos, pos), piece))
                            ELSE applied
    /\ UNCHANGED <<engine, arg_str, ret_piece, ret_move, evaluated, service, ret_score>>

BoardGetPiece ==
    /\ \E pos \in BoardPositions :
          /\ op' = "get_piece"
          /\ arg_move' = ChessMove(pos, pos)
          /\ ret_piece' = get_piece(game.board, pos)
          /\ result' = "Ok"
    /\ UNCHANGED <<game, engine, arg_piece, arg_str, ret_move, evaluated, applied, service, ret_score>>

NextBoard == BoardMakeMove \/ BoardSetPiece \/ BoardGetPiece

SpecBoard == Init /\ [][NextBoard]_vars

(***************************************************************************)
(* The Game driven through make_move from a fresh Game.                    *)
(***************************************************************************)
D1 == Pos(3, 0)
F6 == Pos(5, 5)
F7 == Pos(5, 6)
H5 == Pos(7, 4)

\* the squares make_move is called with: occupied and empty, and one out of range
GamePositions == {E2, E4, F7, F6, D1, H5, Pos(8, 1)}

\* the score field of the ChessMove passed in: as built by ChessMove::new, or
\* as left by a search
GameScores == {0, 50}

GameMakeMove ==
    /\ Len(applied) < MaxMoves
    /\ \E from \in GamePositions, to \in GamePositions, score \in GameScores :
          \E m \in {[from |-> from, to |-> to, score |-> score]} :
          \E r \in {Game_make_move(game, m)} :
              /\ game' = r.game
              /\ op' = "Game::make_move"
              /\ arg_move' = m
              /\ result' = r.result
              /\ applied' = IF r.result = "Ok"
                            THEN Append(applied, Entry("Game::make_move", m, NoPiece))
                            ELSE applied
    /\ UNCHANGED <<engine, arg_piece, arg_str, ret_piece, ret_move, evaluated, service, ret_score>>

Next == GameMakeMove

Spec == Init /\ [][Next]_vars

(***************************************************************************)
(* The Engine asked for a best move on a Game whose public board and       *)
(* current_turn were set by the caller, as src/bin/engine_test.rs does.    *)
(***************************************************************************)
EmptyBoard == [r \in 0..7 |-> [f \in 0..7 |-> NoPiece]]

\* the board holding exactly the pieces of `placed`, a set of <<Position, Piece>>
BoardOf(placed) ==
    [r \in 0..7 |-> [f \in 0..7 |->
        IF \E pl \in placed : pl[1] = Pos(f, r)
        THEN (CHOOSE pl \in placed : pl[1] = Pos(f, r))[2]
        ELSE NoPiece]]

Kings == {<<Pos(4, 0), Piece("King", "White")>>, <<Pos(4, 7), Piece("King", "Black")>>}

\* two kings, one more White piece and one more Black piece
TwoPieceBoards ==
    {BoardOf(Kings \cup {<<wsq, Piece(wt, "White")>>, <<bsq, Piece(bt, "Black")>>}) :
        wt \in {"Pawn", "Knight", "Rook"}, wsq \in {Pos(3, 3), Pos(1, 1)},
        bt \in {"Pawn", "Bishop"}, bsq \in {Pos(4, 4), Pos(6, 6)}}

\* boards on which a side has no move: no piece of it, or one blocked pawn
NoMoveBoards ==
    {BoardOf({<<Pos(4, 0), Piece("King", "White")>>, <<Pos(0, 1), Piece("Pawn", "White")>>}),
     BoardOf({<<Pos(4, 3), Piece("Pawn", "White")>>, <<Pos(4, 4), Piece("Pawn", "Black")>>}),
     EmptyBoard}

EngineBoards == TwoPieceBoards \cup NoMoveBoards

\* boards on which a piece can take a pawn that a king defends
ExchangeBoards ==
    {BoardOf(Kings \cup {<<Pos(3, 1), Piece("Pawn", "White")>>,
                         <<Pos(6, 4), Piece("Bishop", "Black")>>}),
     BoardOf(Kings \cup {<<Pos(3, 6), Piece("Pawn", "Black")>>,
                         <<Pos(6, 3), Piece("Bishop", "White")>>})}

\* the small boards searched at every depth up to MaxDepth, the exchange
\* boards at the depth the callers use
InitEngine ==
    /\ \/ /\ game \in {[Game_new EXCEPT !.board = b, !.current_turn = c] :
                          b \in EngineBoards, c \in Colors}
          /\ engine \in {Engine_new(d) : d \in 1..MaxDepth}
       \/ /\ game \in {[Game_new EXCEPT !.board = b, !.current_turn = c] :
                          b \in ExchangeBoards, c \in Colors}
          /\ engine = Engine_new(SearchDepth)
    /\ op = "none"
    /\ arg_move = NoMove
    /\ arg_piece = NoPiece
    /\ arg_str = <<>>
    /\ result = "Ok"
    /\ ret_piece = NoPiece
    /\ ret_move = NoMove
    /\ ret_score = 0
    /\ evaluated = <<>>
    /\ applied = <<>>
    /\ service = AppState_new

\* a call of find_best_move on the same Engine and Game as the calls before it
FindBestMove ==
    /\ Len(applied) < MaxSearches
    /\ \E r \in {find_best_move(engine, game)} :
           /\ op' = "find_best_move"
           /\ result' = r.result
           /\ ret_move' = r.move
           /\ evaluated' = r.evaluated
           /\ engine' = [engine EXCEPT !.nodes_searched = r.nodes_searched]
           /\ applied' = IF r.result = "Ok"
                         THEN Append(applied, Entry("find_best_move", r.move, NoPiece))
                         ELSE applied
    /\ UNCHANGED <<game, arg_move, arg_piece, arg_str, ret_piece, service, ret_score>>

NextEngine == FindBestMove

SpecEngine == InitEngine /\ [][NextEngine]_vars

(***************************************************************************)
(* Position and ChessMove built and parsed from the caller's input.        *)
(***************************************************************************)
MaxCoord == 8
MaxStrLen == 5

\* the chars of the input strings: e, 2, the hyphen, a space and a two-byte
\* letter
InputChars == {CHAR_a + 4, CHAR_1 + 1, CHAR_HYPHEN, 32, 233}

InputStrings == UNION {[1..n -> InputChars] : n \in 0..MaxStrLen}

InitText ==
    /\ game = Game_new
    /\ engine = Engine_new(SearchDepth)
    /\ op = "none"
    /\ \/ /\ arg_str \in InputStrings
          /\ arg_move = NoMove
       \/ /\ arg_str = <<>>
          /\ arg_move \in {ChessMove(Pos(f, r), Pos(f, r)) : f \in 0..MaxCoord, r \in 0..MaxCoord}
    /\ arg_piece = NoPiece
    /\ result = "Ok"
    /\ ret_piece = NoPiece
    /\ ret_move = NoMove
    /\ ret_score = 0
    /\ evaluated = <<>>
    /\ applied = <<>>
    /\ service = AppState_new

\* Position::create(file, rank) on the coordinates given
PositionCreate ==
    /\ op = "none"
    /\ \E r \in {Position_create(arg_move.from.file, arg_move.from.rank)} :
          /\ op' = "Position::create"
          /\ result' = r.result
          /\ ret_move' = ChessMove(r.pos, r.pos)
    /\ UNCHANGED <<game, engine, arg_move, arg_piece, arg_str, ret_piece, evaluated, applied, service, ret_score>>

\* to_algebraic / Display of the Position just created
PositionToAlgebraic ==
    /\ op = "Position::create"
    /\ result = "Ok"
    /\ op' = "to_algebraic"
    /\ arg_str' = Position_to_algebraic(ret_move.from)
    /\ UNCHANGED <<game, engine, arg_move, arg_piece, result, ret_piece, ret_move,
                   evaluated, applied, service, ret_score>>

\* Position::from_str of the string given or just written
PositionFromStr ==
    /\ op \in {"none", "to_algebraic"}
    /\ \E r \in {Position_from_str(arg_str)} :
          /\ op' = IF op = "none" THEN "Position::from_str" ELSE "from_algebraic"
          /\ result' = r.result
          /\ ret_move' = ChessMove(r.pos, r.pos)
    /\ UNCHANGED <<game, engine, arg_move, arg_piece, arg_str, ret_piece, evaluated, applied, service, ret_score>>

\* ChessMove::from_str of the string given
ChessMoveFromStr ==
    /\ op = "none"
    /\ \E r \in {ChessMove_from_str(arg_str)} :
          /\ op' = "ChessMove::from_str"
          /\ result' = r.result
          /\ ret_move' = r.move
    /\ UNCHANGED <<game, engine, arg_move, arg_piece, arg_str, ret_piece, evaluated, applied, service, ret_score>>

NextText == PositionCreate \/ PositionToAlgebraic \/ PositionFromStr \/ ChessMoveFromStr

SpecText == InitText /\ [][NextText]_vars

(***************************************************************************)
(* The service handling concurrent requests, one game already created.     *)
(***************************************************************************)
\* the identifiers requests name: the game created, and one that exists
\* only once a new_game request has been served
ServiceIds == {1, 2}

ServiceMoves == {ChessMove(E2, E4), ChessMove(F7, F6)}

ServiceKinds == {"new_game", "make_move", "get_game", "get_best_move"}

InitService ==
    /\ game = Game_new
    /\ engine = Engine_new(SearchDepth)
    /\ op = "none"
    /\ arg_move = NoMove
    /\ arg_piece = NoPiece
    /\ arg_str = <<>>
    /\ result = "Ok"
    /\ ret_piece = NoPiece
    /\ ret_move = NoMove
    /\ ret_score = 0
    /\ evaluated = <<>>
    /\ applied = <<>>
    /\ service = [AppState_new EXCEPT !.games = <<Game_new>>, !.settled = <<Game_new>>]

\* a request arrives and its handler runs up to data.games.lock()
Receive(r) ==
    /\ service.reqs[r].pc = "idle"
    /\ \E kind \in ServiceKinds, id \in ServiceIds, move \in ServiceMoves :
          service' = [service EXCEPT !.reqs[r] =
                        [kind |-> kind,
                         id |-> IF kind = "new_game" THEN 0 ELSE id,
                         move |-> IF kind = "make_move" THEN move ELSE NoMove,
                         pc |-> "lock"]]
    /\ UNCHANGED <<game, engine, op, arg_move, arg_piece, arg_str, result, ret_piece,
                   ret_move, evaluated, applied, ret_score>>

\* Mutex::lock returns once no other thread holds the guard
Acquire(r) ==
    /\ service.reqs[r].pc = "lock"
    /\ service.lock = 0
    /\ service' = [service EXCEPT !.lock = r, !.reqs[r].pc = "held"]
    /\ UNCHANGED <<game, engine, op, arg_move, arg_piece, arg_str, result, ret_piece,
                   ret_move, evaluated, applied, ret_score>>

NewGameInsert(r) ==
    /\ service.reqs[r].pc = "held"
    /\ service.reqs[r].kind = "new_game"
    /\ service' = new_game_insert(service, r)
    /\ UNCHANGED <<game, engine, op, arg_move, arg_piece, arg_str, result, ret_piece,
                   ret_move, evaluated, applied, ret_score>>

MakeMoveRelocate(r) ==
    /\ service.reqs[r].pc = "held"
    /\ service.reqs[r].kind = "make_move"
    /\ service' = make_move_relocate(service, r)
    /\ UNCHANGED <<game, engine, op, arg_move, arg_piece, arg_str, result, ret_piece,
                   ret_move, evaluated, applied, ret_score>>

MakeMoveFinish(r) ==
    /\ service.reqs[r].pc = "relocated"
    /\ service' = make_move_finish(service, r)
    /\ UNCHANGED <<game, engine, op, arg_move, arg_piece, arg_str, result, ret_piece,
                   ret_move, evaluated, applied, ret_score>>

GetGame(r) ==
    /\ service.reqs[r].pc = "held"
    /\ service.reqs[r].kind = "get_game"
    /\ service' = read_game(service, r)
    /\ UNCHANGED <<game, engine, op, arg_move, arg_piece, arg_str, result, ret_piece,
                   ret_move, evaluated, applied, ret_score>>

GetBestMove(r) ==
    /\ service.reqs[r].pc = "held"
    /\ service.reqs[r].kind = "get_best_move"
    /\ service' = read_game(service, r)
    /\ UNCHANGED <<game, engine, op, arg_move, arg_piece, arg_str, result, ret_piece,
                   ret_move, evaluated, applied, ret_score>>

NextService ==
    \E r \in Requests :
        \/ Receive(r)
        \/ Acquire(r)
        \/ NewGameInsert(r)
        \/ MakeMoveRelocate(r)
        \/ MakeMoveFinish(r)
        \/ GetGame(r)
        \/ GetBestMove(r)

SpecService == InitService /\ [][NextService]_vars

(***************************************************************************)
(* The generator driven directly on a Board, as src/bin/engine_test.rs     *)
(* does: generate the moves of a side, relocate one of them, generate for  *)
(* the other side.                                                         *)
(***************************************************************************)
\* where the pawn of the boards stands: on its home rank at the edge and in
\* the middle, further up at the edge, and on the last rank
PawnSquares(c) ==
    IF c = "White" THEN {Pos(0, 1), Pos(4, 1), Pos(7, 3), Pos(3, 7)}
    ELSE {Pos(0, 6), Pos(4, 6), Pos(7, 4), Pos(3, 0)}

\* (rank, file) steps from the pawn to the square of the other piece, the
\* rank counted in the pawn's direction: ahead, two ahead, the two diagonals
NearPawn == {<<1, 0>>, <<2, 0>>, <<1, -1>>, <<1, 1>>}

\* the boards with a pawn of colour c on sq: the pawn alone, or with one more
\* piece of either colour near it
BoardsOfPawn(sq, c) ==
    LET forward == IF c = "White" THEN 1 ELSE -1
        near(d) == Pos(sq.file + d[2], sq.rank + forward * d[1])
    IN  {BoardOf({<<sq, Piece("Pawn", c)>>})}
        \cup
        UNION {{BoardOf({<<sq, Piece("Pawn", c)>>, <<near(d), Piece(t, oc)>>}) :
                   t \in {"Knight", "Queen", "King"}, oc \in Colors} :
               d \in {e \in NearPawn : is_valid(near(e))}}

\* a pawn on its home rank with its own king on one forward diagonal and an
\* enemy knight on the other
FlankedPawnBoards ==
    {BoardOf({<<Pos(4, IF c = "White" THEN 1 ELSE 6), Piece("Pawn", c)>>,
              <<Pos(4 + side, IF c = "White" THEN 2 ELSE 5), Piece("King", c)>>,
              <<Pos(4 - side, IF c = "White" THEN 2 ELSE 5), Piece("Knight", opposite(c))>>}) :
        c \in Colors, side \in {-1, 1}}

PawnBoards ==
    FlankedPawnBoards
        \cup UNION {UNION {BoardsOfPawn(sq, c) : sq \in PawnSquares(c)} : c \in Colors}

InitGen ==
    /\ game \in {[Game_new EXCEPT !.board = b, !.current_turn = c] :
                     b \in PawnBoards, c \in Colors}
    /\ engine = Engine_new(SearchDepth)
    /\ op = "none"
    /\ arg_move = NoMove
    /\ arg_piece = NoPiece
    /\ arg_str = <<>>
    /\ result = "Ok"
    /\ ret_piece = NoPiece
    /\ ret_move = NoMove
    /\ ret_score = 0
    /\ evaluated = <<>>
    /\ applied = <<>>
    /\ service = AppState_new

\* engine.generate_moves(&board, color)
GenerateMoves ==
    /\ op # "generate_moves"
    /\ evaluated' = generate_moves(game.board, game.current_turn)
    /\ op' = "generate_moves"
    /\ result' = "Ok"
    /\ UNCHANGED <<game, engine, arg_move, arg_piece, arg_str, ret_piece, ret_move,
                   applied, service, ret_score>>

\* board.make_move(&from, &to) on one of the moves generated; the other
\* side is the next to generate
RelocateGenerated ==
    /\ op = "generate_moves"
    /\ Len(applied) < MaxGenerated
    /\ \E i \in 1..Len(evaluated) :
          \E r \in {Board_make_move(game.board, evaluated[i].from, evaluated[i].to)} :
              /\ game' = [game EXCEPT !.board = r.board,
                                      !.current_turn = opposite(game.current_turn)]
              /\ op' = "Board::make_move"
              /\ arg_move' = evaluated[i]
              /\ result' = r.result
              /\ applied' = Append(applied, Entry("Board::make_move", evaluated[i], NoPiece))
    /\ UNCHANGED <<engine, arg_piece, arg_str, ret_piece, ret_move, evaluated, service, ret_score>>

NextGen == GenerateMoves \/ RelocateGenerated

SpecGen == InitGen /\ [][NextGen]_vars

(***************************************************************************)
(* The static evaluation applied to a board from a perspective colour, as  *)
(* the leaves of the search do.                                            *)
(***************************************************************************)
\* two pieces of any type and colour: one on d4, b1 or g8, one on e5, c1,
\* f8 or a3; and the initial position
EvalBoards ==
    {BoardOf({<<sq1, Piece(t1, c1)>>, <<sq2, Piece(t2, c2)>>}) :
        t1 \in PieceTypes, c1 \in Colors, sq1 \in {Pos(3, 3), Pos(1, 0), Pos(6, 7)},
        t2 \in PieceTypes, c2 \in Colors, sq2 \in {Pos(4, 4), Pos(2, 0), Pos(5, 7), Pos(0, 2)}}
    \cup {Board_new}

InitEval ==
    /\ game \in {[Game_new EXCEPT !.board = b, !.current_turn = c] :
                     b \in EvalBoards, c \in Colors}
    /\ engine \in {Engine_new(d) : d \in 1..MaxDepth}
    /\ op = "none"
    /\ arg_move = NoMove
    /\ arg_piece = NoPiece
    /\ arg_str = <<>>
    /\ result = "Ok"
    /\ ret_piece = NoPiece
    /\ ret_move = NoMove
    /\ ret_score = 0
    /\ evaluated = <<>>
    /\ applied = <<>>
    /\ service = AppState_new

\* self.evaluate_board(board, color), the leaf of minimax
EvaluateBoard ==
    /\ op = "none"
    /\ ret_score' = evaluate_board(game.board, game.current_turn)
    /\ op' = "evaluate_board"
    /\ UNCHANGED <<game, engine, arg_move, arg_piece, arg_str, result, ret_piece, ret_move,
                   evaluated, applied, service>>

NextEval == EvaluateBoard

SpecEval == InitEval /\ [][NextEval]_vars

(***************************************************************************)
(* Engines of any depth, depth 0 included, asked for a best move on boards *)
(* holding the pieces of one side only, where a search of any depth ends   *)
(* at the first reply.                                                     *)
(***************************************************************************)
LoneSideBoards ==
    {BoardOf({<<ksq, Piece("King", c)>>, <<sq, Piece(t, c)>>}) :
        c \in Colors, ksq \in {Pos(4, 0), Pos(4, 7)},
        t \in {"Pawn", "Knight", "Rook"}, sq \in {Pos(0, 1), Pos(3, 3), Pos(6, 6)}}

InitDepth ==
    /\ game \in {[Game_new EXCEPT !.board = b, !.current_turn = c] :
                     b \in LoneSideBoards \cup NoMoveBoards, c \in Colors}
    /\ engine \in {Engine_new(d) : d \in 0..MaxDepth}
    /\ op = "none"
    /\ arg_move = NoMove
    /\ arg_piece = NoPiece
    /\ arg_str = <<>>
    /\ result = "Ok"
    /\ ret_piece = NoPiece
    /\ ret_move = NoMove
    /\ ret_score = 0
    /\ evaluated = <<>>
    /\ applied = <<>>
    /\ service = AppState_new

\* a call of find_best_move in a process that has not aborted
FindBestMoveBuilt ==
    /\ result # "Panic"
    /\ Len(applied) < MaxSearches
    /\ \E r \in find_best_move_builds(engine, game) :
           /\ op' = "find_best_move"
           /\ result' = r.result
           /\ ret_move' = r.move
           /\ evaluated' = r.evaluated
           /\ engine' = [engine EXCEPT !.nodes_searched = r.nodes_searched]
           /\ applied' = IF r.result = "Ok"
                         THEN Append(applied, Entry("find_best_move", r.move, NoPiece))
                         ELSE applied
    /\ UNCHANGED <<game, arg_move, arg_piece, arg_str, ret_piece, ret_score, service>>

NextDepth == FindBestMoveBuilt

SpecDepth == InitDepth /\ [][NextDepth]_vars

(***************************************************************************)
(* Claims about the Board (checked under SpecBoard).                       *)
(***************************************************************************)
Squares == {Pos(f, r) : f \in 0..7, r \in 0..7}

from_arg == arg_move'.from
to_arg == arg_move'.to

RelocateE2E4E5 ==
    <<Entry("Board::make_move", ChessMove(E2, E4), NoPiece),
      Entry("Board::make_move", ChessMove(E4, E5), NoPiece)>>

\* C6: a successful relocate(from, to) with from # to leaves from empty, to
\* holding exactly the piece that was at from, and every other square as it
\* was; e2->e4 then e4->e5 on the initial board leaves e2 and e4 empty and a
\* white pawn on e5.
C6_RelocateFrame ==
    [][ /\ (op' = "Board::make_move" /\ result' = "Ok" /\ from_arg # to_arg) =>
            /\ get_piece(game'.board, from_arg) = NoPiece
            /\ get_piece(game.board, from_arg) # NoPiece
            /\ get_piece(game'.board, to_arg) = get_piece(game.board, from_arg)
            /\ \A sq \in Squares \ {from_arg, to_arg} :
                  get_piece(game'.board, sq) = get_piece(game.board, sq)
        /\ (applied' = RelocateE2E4E5) =>
            /\ get_piece(game'.board, E2) = NoPiece
            /\ get_piece(game'.board, E4) = NoPiece
            /\ get_piece(game'.board, E5) = Piece("Pawn", "White")
      ]_vars

\* the e2->e4, e4->e5 sequence has been played on the initial board
C6_Witness ==
    /\ applied = RelocateE2E4E5
    /\ op = "Board::make_move"
    /\ result = "Ok"

\* C7 as stated: relocate fails with InvalidMove whenever no piece occupies
\* from, and a failed relocate leaves the board unchanged.
C7_Original ==
    [][ (op' = "Board::make_move") =>
            /\ (get_piece(game.board, from_arg) = NoPiece => result' = "InvalidMove")
            /\ (result' # "Ok" => game'.board = game.board)
      ]_vars

\* C7 amended: relocate fails with InvalidPosition when from or to is out of
\* range (checked first), with InvalidMove when both are in range and no
\* piece occupies from, and a failed relocate leaves the board unchanged.
C7_RelocateFailure ==
    [][ (op' = "Board::make_move") =>
            /\ (~is_valid(from_arg) \/ ~is_valid(to_arg)) => result' = "InvalidPosition"
            /\ (is_valid(from_arg) /\ is_valid(to_arg)
                    /\ get_piece(game.board, from_arg) = NoPiece) => result' = "InvalidMove"
            /\ (result' # "Ok" => game'.board = game.board)
      ]_vars

\* a relocate from an occupied square to an out-of-range one has failed
C7_Witness ==
    /\ op = "Board::make_move"
    /\ result = "InvalidPosition"
    /\ is_valid(arg_move.from)
    /\ ~is_valid(arg_move.to)
    /\ get_piece(game.board, arg_move.from) # NoPiece

\* C8: for an out-of-range position get returns no piece without an error
\* and set fails with InvalidPosition leaving the board unchanged; for an
\* in-range position set succeeds and a following get of that position
\* returns exactly the value written.
C8_LenientReadStrictWrite ==
    [][ /\ (op' = "get_piece" /\ ~is_valid(from_arg)) =>
            (ret_piece' = NoPiece /\ result' = "Ok")
        /\ (op' = "set_piece" /\ ~is_valid(from_arg)) =>
            (result' = "InvalidPosition" /\ game'.board = game.board)
        /\ (op' = "set_piece" /\ is_valid(from_arg)) =>
            (result' = "Ok" /\ game'.board[from_arg.rank][from_arg.file] = arg_piece')
        /\ (op = "set_piece" /\ result = "Ok" /\ op' = "get_piece"
                /\ from_arg = arg_move.from) =>
            ret_piece' = arg_piece
      ]_vars

\* a piece was written to an in-range square and then read back
C8_Witness ==
    /\ op = "get_piece"
    /\ Len(applied) > 0
    /\ applied[Len(applied)].op = "set_piece"
    /\ applied[Len(applied)].from = arg_move.from
    /\ applied[Len(applied)].piece # NoPiece
    /\ ret_piece = applied[Len(applied)].piece

(***************************************************************************)
(* Claims about the Game (checked under Spec).                             *)
(***************************************************************************)
\* C1: every successful make_move relocates the piece, appends exactly one
\* entry to move_history and flips current_turn, so the length of
\* move_history equals the number of successful calls and current_turn is
\* White exactly when that number is even.
C1_HistoryCountsMoves ==
    /\ Len(game.move_history) = Len(applied)
    /\ (game.current_turn = "White") <=> (Len(applied) % 2 = 0)

\* C2: make_move fails with InvalidMove when the source square is empty or
\* holds a piece of the other color than current_turn, and a failed
\* make_move leaves board, current_turn, status and move_history as they were.
C2_FailedMoveUnchanged ==
    [][ (op' = "Game::make_move") =>
            /\ (get_piece(game.board, from_arg) = NoPiece
                    \/ get_piece(game.board, from_arg).color # game.current_turn)
                  => result' = "InvalidMove"
            /\ (result' # "Ok" => game' = game)
      ]_vars

\* a move of the side not to move was refused in the middle of a game, and so
\* was a move of the side to move to a square its piece cannot reach
C2_Witness ==
    /\ op = "Game::make_move"
    /\ result = "InvalidMove"
    /\ Len(applied) >= 1
    /\ get_piece(game.board, arg_move.from) # NoPiece
    /\ get_piece(game.board, arg_move.from).color # game.current_turn

\* C3 as stated: make_move succeeds for every pair of in-range squares
\* (from, to) such that a piece of color current_turn sits at from.
C3_Original ==
    [][ ( /\ op' = "Game::make_move"
          /\ is_valid(from_arg) /\ is_valid(to_arg)
          /\ get_piece(game.board, from_arg) # NoPiece
          /\ get_piece(game.board, from_arg).color = game.current_turn )
        => result' = "Ok"
      ]_vars

\* C3 amended: make_move succeeds exactly when a piece of color current_turn
\* sits at from and the move given (from, to, and the score 0 that generated
\* moves carry) is among the pseudo-legal moves generated for current_turn;
\* any other destination or score is refused with InvalidMove.
C3_GeneratedMovesOnly ==
    [][ (op' = "Game::make_move") =>
            LET generated == generate_moves(game.board, game.current_turn)
                listed == /\ arg_move'.score = 0
                          /\ \E i \in 1..Len(generated) :
                                /\ generated[i].from = from_arg
                                /\ generated[i].to = to_arg
            IN  /\ result' = "Ok" <=>
                      ( /\ get_piece(game.board, from_arg) # NoPiece
                        /\ get_piece(game.board, from_arg).color = game.current_turn
                        /\ listed )
                /\ result' # "Ok" => result' = "InvalidMove"
      ]_vars

\* the pawn on e2 was refused a move to a square no pawn move reaches, and a
\* generated move was accepted before that
C3_Witness ==
    /\ op = "Game::make_move"
    /\ result = "InvalidMove"
    /\ Len(applied) >= 2
    /\ get_piece(game.board, arg_move.from) # NoPiece
    /\ get_piece(game.board, arg_move.from).color = game.current_turn
    /\ is_valid(arg_move.to)
    /\ arg_move.score = 0

\* the squares holding a king of `color`
KingSquares(board, color) ==
    {sq \in Squares : get_piece(board, sq) = Piece("King", color)}

\* the status the claim prescribes for the side to move
PrescribedStatus(board, side) ==
    LET attacks == generate_moves(board, opposite(side))
        inCheck == \/ KingSquares(board, side) = {}
                   \/ \E i \in 1..Len(attacks) : attacks[i].to \in KingSquares(board, side)
        hasMoves == generate_moves(board, side) # <<>>
    IN  IF inCheck /\ hasMoves THEN "Check"
        ELSE IF inCheck THEN "Checkmate"
        ELSE IF ~hasMoves THEN "Stalemate"
        ELSE "InProgress"

\* C4: after every successful make_move, status is the status prescribed for
\* the new current_turn: Check, Checkmate, Stalemate or InProgress by whether
\* that side is in check and whether it has a pseudo-legal move.
C4_StatusRecomputed ==
    (op = "Game::make_move" /\ result = "Ok") =>
        game.status = PrescribedStatus(game.board, game.current_turn)

\* C5: status is always one of InProgress, Check, Checkmate, Stalemate; Draw
\* is never assigned.
C5_NeverDraw ==
    game.status \in {"InProgress", "Check", "Checkmate", "Stalemate"}

\* a move has just given check: a state in which a status other than the
\* initial one is due
C5_Witness ==
    /\ op = "Game::make_move"
    /\ result = "Ok"
    /\ PrescribedStatus(game.board, game.current_turn) = "Check"
    /\ game.status # "Draw"

(***************************************************************************)
(* Claims about the search (checked under SpecEngine).                     *)
(***************************************************************************)
\* whether move a comes no later than move b in a rank-major scan of sources
ScanBefore(a, b) ==
    \/ a.from.rank < b.from.rank
    \/ (a.from.rank = b.from.rank /\ a.from.file <= b.from.file)

\* C9: find_best_move fails with InvalidMove when the side to move has no
\* generated pseudo-legal move, returning no move; whenever it succeeds the
\* returned move is one of the moves generated for current_turn on the board.
C9_NoMovesIsAnError ==
    (op = "find_best_move") =>
        LET moves == generate_moves(game.board, game.current_turn)
        IN  /\ (moves = <<>>) => (result = "InvalidMove" /\ evaluated = <<>>)
            /\ (result = "Ok") =>
                  \E i \in 1..Len(moves) :
                      /\ moves[i].from = ret_move.from
                      /\ moves[i].to = ret_move.to

\* the side to move has a piece on the board and still no move: the search
\* has reported the error
C9_Witness ==
    /\ op = "find_best_move"
    /\ result = "InvalidMove"
    /\ \E sq \in Squares : get_piece(game.board, sq).color = game.current_turn

\* C10: find_best_move returns the candidate whose rolled-up score is
\* greatest among all generated moves, the first such in generation order
\* (sources in rank-major scan order), and the returned move's score field is
\* that greatest score.
C10_FirstGreatest ==
    (op = "find_best_move" /\ result = "Ok") =>
        LET moves == generate_moves(game.board, game.current_turn)
        IN  /\ Len(evaluated) = Len(moves)
            /\ \A i \in 1..Len(moves) :
                  /\ evaluated[i].from = moves[i].from
                  /\ evaluated[i].to = moves[i].to
            /\ \A i \in 1..Len(moves), j \in 1..Len(moves) :
                  i < j => ScanBefore(moves[i], moves[j])
            /\ \E k \in 1..Len(evaluated) :
                  /\ ret_move = evaluated[k]
                  /\ \A j \in 1..Len(evaluated) : evaluated[j].score <= ret_move.score
                  /\ \A j \in 1..(k - 1) : evaluated[j].score < ret_move.score

\* the greatest score is shared by several candidates, and the one returned
\* is not the first move generated
C10_Witness ==
    /\ op = "find_best_move"
    /\ result = "Ok"
    /\ Len(evaluated) > 2
    /\ evaluated[1].score < ret_move.score
    /\ \E j \in 1..Len(evaluated) :
          /\ evaluated[j].score = ret_move.score
          /\ evaluated[j] # ret_move

\* C11: find_best_move carries no state between calls: a call on an Engine
\* that has searched before returns the same result, move, score and
\* nodes_searched as the call before it on the same board, side and depth,
\* and the same as a call on a fresh Engine of that depth.
C11_RepeatableSearch ==
    [][ (op' = "find_best_move") =>
            LET fresh == find_best_move(Engine_new(engine.depth), game)
            IN  /\ result' = fresh.result
                /\ ret_move' = fresh.move
                /\ engine'.nodes_searched = fresh.nodes_searched
                /\ (op = "find_best_move") =>
                      /\ result' = result
                      /\ ret_move' = ret_move
                      /\ evaluated' = evaluated
                      /\ engine'.nodes_searched = engine.nodes_searched
      ]_vars

\* the same Engine has searched the same position twice, visiting several nodes
C11_Witness ==
    /\ op = "find_best_move"
    /\ result = "Ok"
    /\ Len(applied) = 2
    /\ applied[1] = applied[2]
    /\ engine.nodes_searched > 2

\* the board after the relocation of move m
board_after(board, m) == Board_make_move(board, m.from, m.to).board

\* the generated moves of `color` whose destination holds a piece
captures(board, color) ==
    LET moves == generate_moves(board, color)
    IN  {moves[i] : i \in {j \in 1..Len(moves) : get_piece(board, moves[j].to) # NoPiece}}

\* the returned move leads to a position the mover's static evaluation rates
\* no lower than the position after any capture
NotBelowBestCapture ==
    \A c \in captures(game.board, game.current_turn) :
        evaluate_board(board_after(game.board, ret_move), game.current_turn)
            >= evaluate_board(board_after(game.board, c), game.current_turn)

\* C12 as stated: at every depth >= 1, when the side to move has a capture,
\* the returned move leads to a position whose static evaluation from the
\* mover's perspective is not lower than that after the best single capture.
C12_Original ==
    (op = "find_best_move" /\ result = "Ok") => NotBelowBestCapture

\* C12 amended: the bound holds for an engine of depth 1.
C12_DepthOneNotBelowCapture ==
    (op = "find_best_move" /\ result = "Ok" /\ engine.depth = 1) => NotBelowBestCapture

\* a depth-1 search has answered on a position where the mover had a capture
C12_Witness ==
    /\ op = "find_best_move"
    /\ result = "Ok"
    /\ engine.depth = 1
    /\ captures(game.board, game.current_turn) # {}

(***************************************************************************)
(* Claims about the values the search computes.                            *)
(***************************************************************************)
RECURSIVE FoldNodes(_)
\* the sum of a sequence of node counts
FoldNodes(counts) ==
    IF counts = <<>> THEN 0 ELSE Head(counts) + FoldNodes(Tail(counts))

\* the greatest and the least member of a non-empty set of integers
Greatest(S) == CHOOSE x \in S : \A y \in S : y <= x
Least(S) == CHOOSE x \in S : \A y \in S : x <= y

RECURSIVE mover_value(_, _, _, _)
\* depth-limited minimax on `mover`'s static evaluation: `mover` picks the
\* greatest value, the opponent the least, `depth` plies below `board` with
\* `to_move` to play; a side without a move is a leaf
mover_value(board, depth, to_move, mover) ==
    LET below(moves) ==
            LET values == {mover_value(board_after(board, moves[i]), depth - 1,
                                       opposite(to_move), mover) : i \in 1..Len(moves)}
            IN  IF moves = <<>> THEN evaluate_board(board, mover)
                ELSE IF to_move = mover THEN Greatest(values) ELSE Least(values)
    IN  IF depth = 0 THEN evaluate_board(board, mover)
        ELSE bind(generate_moves(board, to_move), below)

\* the minimax value, for the side to move in `game`, of the candidate m
\* searched by an engine of depth `depth`
candidate_value(g, depth, m) ==
    mover_value(board_after(g.board, m), depth - 1, opposite(g.current_turn),
                g.current_turn)

\* C19: the score given to each candidate is the depth-limited minimax value
\* of the position after it from the mover's perspective, for both colours
\* and every depth >= 1, and the returned move has the greatest such value.
C19_ScoresAreMinimaxValues ==
    (op = "find_best_move" /\ result = "Ok") =>
        /\ \A i \in 1..Len(evaluated) :
              evaluated[i].score = candidate_value(game, engine.depth, evaluated[i])
        /\ \A i \in 1..Len(evaluated) :
              candidate_value(game, engine.depth, ret_move)
                  >= candidate_value(game, engine.depth, evaluated[i])

RECURSIVE unpruned(_, _, _)
\* the recursion of minimax without its break: White takes the greatest and
\* Black the least of the values of all the moves
unpruned(board, depth, color) ==
    LET below(moves) ==
            IF moves = <<>> THEN evaluate_board(board, color)
            ELSE IF color = "White"
            THEN Greatest({unpruned(board_after(board, moves[i]), depth - 1, "Black") :
                              i \in 1..Len(moves)})
            ELSE Least({unpruned(board_after(board, moves[i]), depth - 1, "White") :
                           i \in 1..Len(moves)})
    IN  IF depth = 0 THEN evaluate_board(board, color)
        ELSE bind(generate_moves(board, color), below)

RECURSIVE unpruned_nodes(_, _, _)
\* the number of calls that recursion makes
unpruned_nodes(board, depth, color) ==
    LET below(moves) ==
            1 + FoldNodes([i \in 1..Len(moves) |->
                             unpruned_nodes(board_after(board, moves[i]), depth - 1,
                                            opposite(color))])
    IN  IF depth = 0 THEN 1
        ELSE bind(generate_moves(board, color), below)

\* the candidates of find_best_move scored through the recursion without break
unpruned_scores(e, g) ==
    LET scored(moves) ==
            [i \in 1..Len(moves) |->
                [moves[i] EXCEPT !.score =
                    neg_i32(unpruned(board_after(g.board, moves[i]), e.depth - 1,
                                     opposite(g.current_turn)))]]
    IN  bind(generate_moves(g.board, g.current_turn), scored)

\* the first of the candidates with the greatest score
first_greatest(scored) ==
    scored[CHOOSE i \in 1..Len(scored) :
              /\ \A j \in 1..Len(scored) : scored[j].score <= scored[i].score
              /\ \A j \in 1..(i - 1) : scored[j].score < scored[i].score]

\* the search agrees with `scored`, the candidates as scored without pruning
same_result(scored) ==
    /\ evaluated = scored
    /\ ret_move = first_greatest(scored)

\* C20: pruning does not change the result: every call of minimax with the
\* root window returns the value of the same recursion without the break,
\* so find_best_move gives every candidate the score, and returns the move
\* and score, that the search without pruning gives.
C20_PruningKeepsResult ==
    (op = "find_best_move" /\ result = "Ok") =>
        bind(unpruned_scores(engine, game), same_result)

\* a search has answered after breaking out of a loop: it made fewer calls
\* than the recursion without break makes below the root
C20_Witness ==
    /\ op = "find_best_move"
    /\ result = "Ok"
    /\ engine.nodes_searched + 1
          < unpruned_nodes(game.board, engine.depth, game.current_turn)

(***************************************************************************)
(* Claims about the initial position and the generator.                    *)
(***************************************************************************)
\* the squares of `board` holding a piece of `color`
PiecesOf(board, color) == {sq \in Squares : get_piece(board, sq).color = color}

\* the piece type the standard set-up puts on file f of a back rank
StandardBackRank(f) ==
    CASE f \in {0, 7} -> "Rook"
      [] f \in {1, 6} -> "Knight"
      [] f \in {2, 5} -> "Bishop"
      [] f = 3 -> "Queen"
      [] f = 4 -> "King"

\* C13: a fresh Game holds exactly 32 pieces, 16 per color: White's back rank
\* R N B Q K B N R on rank 0 and pawns on rank 1, Black's back rank on rank 7
\* and pawns on rank 6, ranks 2-5 empty; current_turn is White, status is
\* InProgress and move_history is empty.
C13_InitialState ==
    (op = "none") =>
        /\ Cardinality(PiecesOf(game.board, "White")) = 16
        /\ Cardinality(PiecesOf(game.board, "Black")) = 16
        /\ Cardinality({sq \in Squares : get_piece(game.board, sq) # NoPiece}) = 32
        /\ \A f \in 0..7 :
              /\ get_piece(game.board, Pos(f, 0)) = Piece(StandardBackRank(f), "White")
              /\ get_piece(game.board, Pos(f, 1)) = Piece("Pawn", "White")
              /\ get_piece(game.board, Pos(f, 6)) = Piece("Pawn", "Black")
              /\ get_piece(game.board, Pos(f, 7)) = Piece(StandardBackRank(f), "Black")
              /\ \A r \in 2..5 : get_piece(game.board, Pos(f, r)) = NoPiece
        /\ game.current_turn = "White"
        /\ game.status = "InProgress"
        /\ game.move_history = <<>>

\* the Game as Game::new leaves it, before any call
C13_Witness ==
    /\ op = "none"
    /\ applied = <<>>
    /\ game = Game_new
    /\ get_piece(game.board, Pos(4, 0)).piece_type = "King"

\* the generated moves of `color` that start on a piece of type t and change
\* the rank by d or -d
MovesBy(board, color, t, d) ==
    LET moves == generate_moves(board, color)
    IN  {i \in 1..Len(moves) :
            /\ get_piece(board, moves[i].from).piece_type = t
            /\ moves[i].to.rank - moves[i].from.rank \in {d, -d}}

\* C14: on the initial board the generator yields exactly 20 moves for White
\* (8 single pawn steps, 8 double pawn steps, 4 knight moves) and exactly 20
\* for Black.
C14_TwentyOpeningMoves ==
    (op = "none") =>
        \A c \in Colors :
            /\ Len(generate_moves(game.board, c)) = 20
            /\ Cardinality(MovesBy(game.board, c, "Pawn", 1)) = 8
            /\ Cardinality(MovesBy(game.board, c, "Pawn", 2)) = 8
            /\ Cardinality(MovesBy(game.board, c, "Knight", 2)) = 4
            /\ \A i \in 1..20 :
                  LET m == generate_moves(game.board, c)[i]
                  IN  /\ get_piece(game.board, m.from).piece_type \in {"Pawn", "Knight"}
                      /\ get_piece(game.board, m.from).piece_type = "Pawn"
                            => m.to.file = m.from.file
                      /\ get_piece(game.board, m.to) = NoPiece

\* the initial board, for which the generator lists the double step e2-e4
C14_Witness ==
    /\ op = "none"
    /\ game.board = Board_new
    /\ contains(generate_moves(game.board, "White"), ChessMove(E2, E4))
    /\ contains(generate_moves(game.board, "Black"), ChessMove(F7, F6))

\* the directions a sliding piece of type t moves in, as (dr, df)
SlideDirections(t) ==
    CASE t = "Rook" -> {<<1, 0>>, <<-1, 0>>, <<0, 1>>, <<0, -1>>}
      [] t = "Bishop" -> {<<1, 1>>, <<1, -1>>, <<-1, 1>>, <<-1, -1>>}
      [] t = "Queen" -> {<<1, 0>>, <<-1, 0>>, <<0, 1>>, <<0, -1>>,
                         <<1, 1>>, <<1, -1>>, <<-1, 1>>, <<-1, -1>>}

\* the square k steps from sq in direction d
Along(sq, d, k) == Pos(sq.file + k * d[2], sq.rank + k * d[1])

\* the numbers of steps from sq in direction d that stay on the board
OnBoardSteps(sq, d) ==
    {k \in 1..7 : in_board(sq.rank + k * d[1], sq.file + k * d[2])}

\* the numbers of steps a piece of `color` on sq may slide in direction d:
\* up to the first occupied square, that square included iff it holds an enemy
SlideSteps(board, sq, color, d) ==
    LET blocked == {k \in OnBoardSteps(sq, d) : get_piece(board, Along(sq, d, k)) # NoPiece}
    IN  {k \in OnBoardSteps(sq, d) :
            /\ \A j \in blocked : k <= j
            /\ k \in blocked => get_piece(board, Along(sq, d, k)).color # color}

\* the squares holding a bishop, rook or queen
Sliders(board) ==
    {sq \in Squares : get_piece(board, sq).piece_type \in {"Bishop", "Rook", "Queen"}}

\* the destinations the generator lists for the piece on sq
Destinations(board, sq) ==
    LET moves == piece_moves(board, sq, get_piece(board, sq))
    IN  {moves[i].to : i \in 1..Len(moves)}

\* C15: for every sliding piece and each of its directions the generated
\* destinations are exactly the consecutive empty squares up to the first
\* occupied square or the edge, plus that square iff it holds an enemy piece;
\* nothing beyond it and nothing off the piece's directions is generated.
C15_SlidingStopsAtFirstPiece ==
    \A sq \in Sliders(game.board) :
        LET piece == get_piece(game.board, sq)
        IN  Destinations(game.board, sq) =
                UNION {{Along(sq, d, k) : k \in SlideSteps(game.board, sq, piece.color, d)} :
                          d \in SlideDirections(piece.piece_type)}

\* a queen slides to an enemy piece in one direction and to the edge in
\* another, and some sliding piece is stopped at once by a piece of its own
C15_Witness ==
    /\ \E sq \in Sliders(game.board) :
          LET piece == get_piece(game.board, sq)
          IN  /\ piece.piece_type = "Queen"
              /\ \E to \in Destinations(game.board, sq) :
                    get_piece(game.board, to) # NoPiece
              /\ \E d \in SlideDirections("Queen") :
                    /\ OnBoardSteps(sq, d) # {}
                    /\ SlideSteps(game.board, sq, piece.color, d) = OnBoardSteps(sq, d)
    /\ \E sq \in Sliders(game.board) :
          \E d \in SlideDirections(get_piece(game.board, sq).piece_type) :
              /\ OnBoardSteps(sq, d) # {}
              /\ SlideSteps(game.board, sq, get_piece(game.board, sq).color, d) = {}

(***************************************************************************)
(* Claims about Position and the move parser (checked under SpecText).     *)
(***************************************************************************)
\* the letters a-h and the digits 1-8, by file and rank
FileLetters == <<97, 98, 99, 100, 101, 102, 103, 104>>
RankDigits == <<49, 50, 51, 52, 53, 54, 55, 56>>

\* C16: Position::create(file, rank) succeeds exactly when file <= 7 and
\* rank <= 7 and fails with InvalidPosition otherwise; a valid position is
\* written with file 0 as 'a' and rank 0 as '1', and parsing what was
\* written succeeds and gives the position back.
C16_CreateAndRoundTrip ==
    [][ /\ (op' = "Position::create") =>
            /\ result' = "Ok" <=> (arg_move.from.file <= 7 /\ arg_move.from.rank <= 7)
            /\ result' = "Ok" => ret_move'.from = arg_move.from
            /\ result' # "Ok" => result' = "InvalidPosition"
        /\ (op' = "to_algebraic") =>
            arg_str' = <<FileLetters[ret_move.from.file + 1],
                         RankDigits[ret_move.from.rank + 1]>>
        /\ (op' = "from_algebraic") =>
            /\ result' = "Ok"
            /\ ret_move'.from = ret_move.from
            /\ ret_move'.from = arg_move.from
      ]_vars

\* the position h8 was created, written as "h8" and parsed back
C16_Witness ==
    /\ op = "from_algebraic"
    /\ result = "Ok"
    /\ arg_move.from = Pos(7, 7)
    /\ arg_str = <<104, 56>>
    /\ ret_move.from = Pos(7, 7)

\* whether the chars f, r spell a square: a file a-h followed by a rank 1-8
IsSquare(f, r) ==
    /\ \E i \in 1..8 : FileLetters[i] = f
    /\ \E i \in 1..8 : RankDigits[i] = r

\* whether s is "<sq>-<sq>" or "<sq><sq>"
IsMoveShape(s) ==
    \/ /\ Len(s) = 5
       /\ IsSquare(s[1], s[2]) /\ s[3] = CHAR_HYPHEN /\ IsSquare(s[4], s[5])
    \/ /\ Len(s) = 4
       /\ IsSquare(s[1], s[2]) /\ IsSquare(s[3], s[4])

\* C17: parsing a move string succeeds exactly for the shapes "<sq>-<sq>" and
\* "<sq><sq>", and every other input string fails with InvalidMove.
C17_ParseShapes ==
    (op = "ChessMove::from_str") =>
        /\ result = "Ok" <=> IsMoveShape(arg_str)
        /\ result = "Ok" =>
              /\ arg_str[1] = FileLetters[ret_move.from.file + 1]
              /\ arg_str[2] = RankDigits[ret_move.from.rank + 1]
        /\ result # "Ok" => result = "InvalidMove"

(***************************************************************************)
(* Claims about the service layer (checked under SpecService).             *)
(***************************************************************************)
\* request r is between taking the guard and responding
Holding(s, r) == s.reqs[r].pc \in {"held", "relocated"}

\* C18: requests are mutually exclusive: no two requests are ever between
\* lock and response together, so two move applications never overlap, and
\* a state query or best-move search never reads a game whose board is
\* relocated while its turn is not yet flipped: it reads the game as the
\* last completed request left it.
C18_Serialized ==
    [][ /\ \A r1 \in Requests, r2 \in Requests :
              (Holding(service', r1) /\ Holding(service', r2)) => r1 = r2
        /\ \A r \in Requests :
              ( /\ service.reqs[r].kind \in {"get_game", "get_best_move"}
                /\ service.reqs[r].pc = "held"
                /\ service'.reqs[r].pc = "done"
                /\ has_game(service, service.reqs[r].id) )
              => /\ service'.observed[r] = View(service.settled[service.reqs[r].id])
                 /\ \A r2 \in Requests : service.reqs[r2].pc # "relocated"
      ]_vars

\* a read of game 1 is waiting for the guard while a move on game 1 has
\* relocated the piece and not yet flipped the turn
C18_Witness ==
    \E r1 \in Requests, r2 \in Requests :
        /\ service.reqs[r1].pc = "relocated"
        /\ service.reqs[r1].id = 1
        /\ service.reqs[r2].pc = "lock"
        /\ service.reqs[r2].kind \in {"get_game", "get_best_move"}
        /\ service.reqs[r2].id = 1
        /\ service.games[1] # service.settled[1]

(***************************************************************************)
(* Claims about the generated moves (checked under SpecGen).               *)
(***************************************************************************)
\* m starts on a piece of `color`, stays on the board and lands on an empty
\* square or on a piece of the other colour
WellFormedMove(board, color, m) ==
    /\ m.from.file \in 0..7 /\ m.from.rank \in 0..7
    /\ m.to.file \in 0..7 /\ m.to.rank \in 0..7
    /\ board[m.from.rank][m.from.file] # NoPiece
    /\ board[m.from.rank][m.from.file].color = color
    /\ \/ board[m.to.rank][m.to.file] = NoPiece
       \/ board[m.to.rank][m.to.file].color = opposite(color)

\* C21: every generated move starts on a piece of the side, has source and
\* destination within files and ranks 0..7 and lands on an empty square or
\* on a piece of the opposite colour; so Board::make_move succeeds on every
\* generated move.
C21_GeneratedMovesWellFormed ==
    /\ op = "generate_moves" =>
          \A i \in 1..Len(evaluated) :
              /\ WellFormedMove(game.board, game.current_turn, evaluated[i])
              /\ Board_make_move(game.board, evaluated[i].from, evaluated[i].to).result = "Ok"
    /\ op = "Board::make_move" => result = "Ok"

\* moves were generated for a side that could capture, could step onto an
\* empty square, and has a king standing next to a piece of its own
C21_Witness ==
    /\ op = "generate_moves"
    /\ \E i \in 1..Len(evaluated) : get_piece(game.board, evaluated[i].to) # NoPiece
    /\ \E i \in 1..Len(evaluated) : get_piece(game.board, evaluated[i].to) = NoPiece
    /\ \E k \in Squares, o \in Squares :
          /\ get_piece(game.board, k) = Piece("King", game.current_turn)
          /\ get_piece(game.board, o).color = game.current_turn
          /\ k # o
          /\ k.file - o.file \in -1..1
          /\ k.rank - o.rank \in -1..1

\* the squares a pawn of colour c on sq may move to
PawnTargets(board, sq, c) ==
    LET forward == IF c = "White" THEN 1 ELSE -1
        home == IF c = "White" THEN 1 ELSE 6
        one == Pos(sq.file, sq.rank + forward)
        two == Pos(sq.file, sq.rank + 2 * forward)
        empty(q) == q \in Squares /\ board[q.rank][q.file] = NoPiece
        enemy(q) == q \in Squares /\ board[q.rank][q.file].color = opposite(c)
    IN  {q \in {one} : empty(q)}
        \cup {q \in {two} : sq.rank = home /\ empty(one) /\ empty(q)}
        \cup {q \in {Pos(sq.file - 1, sq.rank + forward), Pos(sq.file + 1, sq.rank + forward)} :
                 enemy(q)}

\* the indices of the generated moves that start on sq
MovesFrom(sq) == {i \in 1..Len(evaluated) : evaluated[i].from = sq}

\* C22: the moves generated for a pawn are exactly the square ahead when it
\* is on the board and empty, the square two ahead from the home rank when
\* both squares are empty, and each forward diagonal square on the board
\* holding an enemy piece, each once; nothing else is generated.
C22_PawnMovesExact ==
    op = "generate_moves" =>
        \A sq \in Squares :
            get_piece(game.board, sq) = Piece("Pawn", game.current_turn) =>
                /\ {evaluated[i].to : i \in MovesFrom(sq)}
                      = PawnTargets(game.board, sq, game.current_turn)
                /\ Cardinality(MovesFrom(sq))
                      = Cardinality(PawnTargets(game.board, sq, game.current_turn))

\* moves were generated for a pawn that could step once, step twice and capture
C22_Witness ==
    /\ op = "generate_moves"
    /\ \E sq \in Squares :
          /\ get_piece(game.board, sq) = Piece("Pawn", game.current_turn)
          /\ \E i \in MovesFrom(sq) : evaluated[i].to.rank - sq.rank \in {-2, 2}
          /\ \E i \in MovesFrom(sq) : evaluated[i].to.file # sq.file
          /\ Cardinality(MovesFrom(sq)) = 3

(***************************************************************************)
(* Claims about the static evaluation (checked under SpecEval).            *)
(***************************************************************************)
\* what a piece on sq is worth: material, the centre, a developed minor piece
Worth(sq, piece) ==
    (CASE piece.piece_type = "Pawn" -> 100
       [] piece.piece_type = "Knight" -> 320
       [] piece.piece_type = "Bishop" -> 330
       [] piece.piece_type = "Rook" -> 500
       [] piece.piece_type = "Queen" -> 900
       [] piece.piece_type = "King" -> 20000)
    + (IF sq \in {Pos(3, 3), Pos(4, 3), Pos(3, 4), Pos(4, 4)} THEN 10 ELSE 0)
    + (IF piece.piece_type \in {"Knight", "Bishop"}
           /\ sq.rank # (IF piece.color = "White" THEN 0 ELSE 7)
       THEN 15 ELSE 0)

RECURSIVE TotalWorth(_, _)
\* the sum of what the pieces on the squares S of `board` are worth
TotalWorth(board, S) ==
    IF S = {} THEN 0
    ELSE LET sq == CHOOSE q \in S : TRUE
         IN  Worth(sq, get_piece(board, sq)) + TotalWorth(board, S \ {sq})

\* C23: the evaluation of a board from a perspective colour is the sum of
\* material value, 10 for a piece on d4, e4, d5 or e5 and 15 for a knight or
\* bishop off its own home rank, over the pieces of that colour, minus the
\* same sum over the other pieces; the engine asked plays no part.
C23_EvaluationIsSignedSum ==
    op = "evaluate_board" =>
        ret_score = TotalWorth(game.board, PiecesOf(game.board, game.current_turn))
                      - TotalWorth(game.board,
                                   PiecesOf(game.board, opposite(game.current_turn)))

\* a board was evaluated on which the perspective colour has a piece in the
\* centre and the other colour a minor piece off its home rank
C23_Witness ==
    /\ op = "evaluate_board"
    /\ get_piece(game.board, Pos(3, 3)).color = game.current_turn
    /\ \E sq \in PiecesOf(game.board, opposite(game.current_turn)) :
          /\ get_piece(game.board, sq).piece_type \in {"Knight", "Bishop"}
          /\ sq.rank # (IF game.current_turn = "White" THEN 7 ELSE 0)

\* C24: the evaluation from one colour is the negation of the evaluation of
\* the same board from the other colour, bonus terms included.
C24_Antisymmetric ==
    op = "evaluate_board" =>
        ret_score = 0 - evaluate_board(game.board, opposite(game.current_turn))

\* a board was evaluated on which the other colour holds a centre square and
\* the perspective colour has a minor piece off its home rank elsewhere
C24_Witness ==
    /\ op = "evaluate_board"
    /\ ret_score # 0
    /\ get_piece(game.board, Pos(4, 4)).color = opposite(game.current_turn)
    /\ get_piece(game.board, Pos(3, 3)).color = game.current_turn
    /\ get_piece(game.board, Pos(3, 3)).piece_type \in {"Knight", "Bishop"}

(***************************************************************************)
(* Claims about the arithmetic of the search (checked under SpecDepth).    *)
(***************************************************************************)
\* C25: the arithmetic of the search never overflows, for every engine
\* depth, 0 included: no call aborts on an overflow, `depth - 1` at the root
\* is computed (a candidate was relocated) only from a depth >= 1, no score
\* is the negation of i32::MIN, and every score lies strictly inside the
\* root window.
C25_NoOverflow ==
    op = "find_best_move" =>
        /\ result # "Panic"
        /\ generate_moves(game.board, game.current_turn) # <<>> => engine.depth >= 1
        /\ \A i \in 1..Len(evaluated) :
              /\ evaluated[i].score # I32_MIN
              /\ evaluated[i].score > I32_MIN + 1
              /\ evaluated[i].score < I32_MAX - 1

====
